---- MODULE Spec2Model ----
(***************************************************************************)
(* Model of the PFT workflow orchestrator (server/utils/orchestrator.py):  *)
(* invocations of PFTWorkflowOrchestrator.process_pft_request, cut at their *)
(* await points, together with the Redis resources they talk to (the       *)
(* pub/sub channels pft:progress:{id} and the keys pft:processing:{id} and *)
(* pft:report:{id}), the five agent calls each invocation makes, and the   *)
(* wall clock read by datetime.now().  Every invocation runs on the one    *)
(* orchestrator instance of main.py; its locals are indexed by request id. *)
(* The HTTP handlers of server/main.py that admit a request, read its      *)
(* records and take feedback are modelled on the same Redis store.         *)
(***************************************************************************)
EXTENDS Integers, Sequences, FiniteSets, TLC

VARIABLES
    pc,                \* per invocation: position of the coroutine
    step_idx,          \* per invocation: index into workflow_steps of the loop
    has_callback,      \* per invocation: whether a progress_callback was passed
    script,            \* per invocation and step: what the agent call will do
    status,            \* per invocation: its WorkflowStatus object
    workflow_data,     \* per invocation: its workflow_data dictionary
    calls,             \* per invocation and step: invocations of the agent method
    call_outcome,      \* per invocation and step: how the awaited call ended
    final_result,      \* per invocation: the local final_result
    envelope,          \* per invocation: the dictionary returned to the caller
    redis_channels,    \* Redis pub/sub: messages published, per topic
    redis_store,       \* Redis keys: value stored, per key
    clock,             \* the wall clock datetime.now() reads
    abandoned_call,    \* per invocation: the agent call wait_for gave up on
    last_http,         \* the HTTP exchange main.py served last
    launched,          \* per request id: background tasks added for it
    feedback,          \* the Redis list pft:feedback
    analysed           \* the batches handed to analyze_feedback_batch

\* The state of main.py's HTTP handlers.
api_vars == <<last_http, launched, feedback, analysed>>

vars == <<pc, step_idx, has_callback, script, status, workflow_data, calls,
          call_outcome, final_result, envelope, redis_channels, redis_store,
          clock, abandoned_call, last_http, launched, feedback, analysed>>

-----------------------------------------------------------------------------
(* Bounds of the model *)

MaxPayload == 2

MaxClock == 1

Payloads == 1..MaxPayload

\* Seconds an agent call may take: within every timeout (1), and beyond the
\* timeouts 30 and 60 (61), 90 (91) and 120 (121).
Durations == {1, 61, 91, 121}

AgentErrors == {"agent_error"}

RedisError == "redis_error"

CallbackError == "callback_error"

-----------------------------------------------------------------------------
(* ProcessingStage and the step table built by __init__ *)

QUEUED == "queued"
DATA_EXTRACTION == "data_extraction"
INTERPRETATION == "interpretation"
TRIAGE_ASSESSMENT == "triage_assessment"
REPORT_GENERATION == "report_generation"
QUALITY_VALIDATION == "quality_validation"
COMPLETED == "completed"
FAILED == "failed"

\* Mutant: the progress weights of triage and report generation are swapped.
workflow_steps_swapped_progress ==
    << [stage |-> DATA_EXTRACTION, progress |-> 20,
        description |-> "Extracting and standardizing PFT data", timeout |-> 60],
       [stage |-> INTERPRETATION, progress |-> 40,
        description |-> "Analyzing PFT results", timeout |-> 90],
       [stage |-> TRIAGE_ASSESSMENT, progress |-> 80,
        description |-> "Assessing clinical priority", timeout |-> 60],
       [stage |-> REPORT_GENERATION, progress |-> 60,
        description |-> "Generating professional report", timeout |-> 120],
       [stage |-> QUALITY_VALIDATION, progress |-> 95,
        description |-> "Validating report quality", timeout |-> 30] >>

workflow_steps ==
    << [stage |-> DATA_EXTRACTION, progress |-> 20,
        description |-> "Extracting and standardizing PFT data", timeout |-> 60],
       [stage |-> INTERPRETATION, progress |-> 40,
        description |-> "Analyzing PFT results", timeout |-> 90],
       [stage |-> TRIAGE_ASSESSMENT, progress |-> 60,
        description |-> "Assessing clinical priority", timeout |-> 60],
       [stage |-> REPORT_GENERATION, progress |-> 80,
        description |-> "Generating professional report", timeout |-> 120],
       [stage |-> QUALITY_VALIDATION, progress |-> 95,
        description |-> "Validating report quality", timeout |-> 30] >>

NSteps == Len(workflow_steps)

StepIds == 1..NSteps

StageOf(k) == workflow_steps[k].stage

-----------------------------------------------------------------------------
(* Values *)

\* The request of the single-invocation specifications, and a second one
\* for the specification of two concurrent invocations.
RequestId == "req-1"

OtherRequestId == "req-2"

Requests == {RequestId, OtherRequestId}

None == "None"

\* The empty dictionary {} a context slot starts with, and an agent's result:
\* which step produced it, for which request's arguments, and its content.
EmptyDict == [by |-> "nobody", for |-> None, payload |-> 0]

AgentResult(stage, request_id, p) ==
    [by |-> stage, for |-> request_id, payload |-> p]

\* The three error message formats of process_pft_request.
NoError == [text |-> None, stage |-> None, cause |-> None]

TimeoutMsg(stage) == [text |-> "Timeout in step", stage |-> stage, cause |-> None]

StepErrorMsg(stage, e) == [text |-> "Error in step", stage |-> stage, cause |-> e]

UnexpectedMsg(e) ==
    [text |-> "Unexpected error in workflow", stage |-> None, cause |-> e]

\* Nothing stored under pft:report:{id}; nothing returned yet.
NoReport == [report_id |-> None]

NoEnvelope == [status |-> None]

\* A dictionary with no keys, used for stage_results = {}.
NoResults == [k \in {} |-> EmptyDict]

\* A datetime, and the None of an Optional[datetime].
DateTime(t) == [is_set |-> TRUE, at |-> t]

NoDateTime == [is_set |-> FALSE, at |-> 0]

\* datetime.isoformat(): the text of the instant; JSON null for None.
isoformat(dt) == [iso |-> dt.at]

JsonNull == [iso |-> -1]

\* The Redis key and topic names built by the f-strings.
\* Mutant: the status key does not contain the request id.
ProcessingKeyShared(request_id) == <<"pft:processing", RequestId>>

ProcessingKey(request_id) == <<"pft:processing", request_id>>

ReportKey(request_id) == <<"pft:report", request_id>>

ProgressTopic(request_id) == <<"pft:progress", request_id>>

RedisKeys == {ProcessingKey(r) : r \in Requests} \cup {ReportKey(r) : r \in Requests}

RedisTopics == {ProgressTopic(r) : r \in Requests}

-----------------------------------------------------------------------------
(* WorkflowStatus *)

NewWorkflowStatus(request_id) ==
    [request_id |-> request_id, stage |-> QUEUED, progress |-> 0,
     current_step |-> "Queued for processing", started_at |-> DateTime(clock),
     completed_at |-> NoDateTime, error_message |-> NoError,
     stage_results |-> NoResults, processing_time |-> 0]

update_stage(st, stage, progress, step_description) ==
    LET s1 == [st EXCEPT !.stage = stage, !.progress = progress,
                         !.current_step = step_description]
    IN  IF stage = COMPLETED
        THEN [s1 EXCEPT !.completed_at = DateTime(clock),
                        !.processing_time = clock - st.started_at.at]
        ELSE s1

\* Mutant: the failure is recorded without stamping completed_at.
set_error_no_stamp(st, error_message) ==
    [st EXCEPT !.stage = FAILED, !.error_message = error_message]

set_error(st, error_message) ==
    [st EXCEPT !.stage = FAILED, !.error_message = error_message,
               !.completed_at = DateTime(clock),
               !.processing_time = clock - st.started_at.at]

to_dict(st) ==
    [request_id |-> st.request_id, stage |-> st.stage, progress |-> st.progress,
     current_step |-> st.current_step,
     started_at |-> isoformat(st.started_at),
     completed_at |-> IF st.completed_at.is_set
                      THEN isoformat(st.completed_at) ELSE JsonNull,
     processing_time |-> st.processing_time,
     error_message |-> st.error_message]

-----------------------------------------------------------------------------
(* Helpers of the orchestrator *)

InitialWorkflowData(request_id) ==
    [request_id |-> request_id, file_content |-> "file", file_type |-> "txt",
     patient_demographics |-> "demographics", historical_data |-> "history",
     priority |-> "routine",
     extracted_data |-> EmptyDict, interpretation |-> EmptyDict,
     triage_assessment |-> EmptyDict, report_data |-> EmptyDict,
     quality_assessment |-> EmptyDict]

\* Mutant: the merge writes the slot and drops the uploaded file content.
_update_workflow_data_drops_input(stage, result, wd) ==
    IF stage = DATA_EXTRACTION
    THEN [wd EXCEPT !.extracted_data = result, !.file_content = None]
    ELSE IF stage = INTERPRETATION THEN [wd EXCEPT !.interpretation = result]
    ELSE IF stage = TRIAGE_ASSESSMENT THEN [wd EXCEPT !.triage_assessment = result]
    ELSE IF stage = REPORT_GENERATION THEN [wd EXCEPT !.report_data = result]
    ELSE IF stage = QUALITY_VALIDATION THEN [wd EXCEPT !.quality_assessment = result]
    ELSE wd

\* Mutant: the interpretation result lands in the triage slot.
_update_workflow_data_wrong_slot(stage, result, wd) ==
    IF stage = DATA_EXTRACTION THEN [wd EXCEPT !.extracted_data = result]
    ELSE IF stage = INTERPRETATION THEN [wd EXCEPT !.triage_assessment = result]
    ELSE IF stage = TRIAGE_ASSESSMENT THEN [wd EXCEPT !.triage_assessment = result]
    ELSE IF stage = REPORT_GENERATION THEN [wd EXCEPT !.report_data = result]
    ELSE IF stage = QUALITY_VALIDATION THEN [wd EXCEPT !.quality_assessment = result]
    ELSE wd

_update_workflow_data(stage, result, wd) ==
    IF stage = DATA_EXTRACTION THEN [wd EXCEPT !.extracted_data = result]
    ELSE IF stage = INTERPRETATION THEN [wd EXCEPT !.interpretation = result]
    ELSE IF stage = TRIAGE_ASSESSMENT THEN [wd EXCEPT !.triage_assessment = result]
    ELSE IF stage = REPORT_GENERATION THEN [wd EXCEPT !.report_data = result]
    ELSE IF stage = QUALITY_VALIDATION THEN [wd EXCEPT !.quality_assessment = result]
    ELSE wd

\* Mutant: the error response starts from an empty partial_results.
_create_error_response_no_partials(request_id, error_message, st) ==
    [request_id |-> request_id, status |-> "failed",
     error_message |-> error_message, processing_time |-> st.processing_time,
     workflow_status |-> to_dict(st), partial_results |-> NoResults]

_create_error_response(request_id, error_message, st) ==
    [request_id |-> request_id, status |-> "failed",
     error_message |-> error_message, processing_time |-> st.processing_time,
     workflow_status |-> to_dict(st), partial_results |-> st.stage_results]

\* Mutant: agents_used lists the stages in reverse order.
_create_final_result_reversed(request_id, wd, st) ==
    [request_id |-> request_id, status |-> "completed",
     processing_time |-> st.processing_time,
     report |-> [report_id |-> request_id,
                 patient_demographics |-> wd.patient_demographics,
                 test_date |-> isoformat(DateTime(clock)),
                 extracted_data |-> wd.extracted_data,
                 interpretation |-> wd.interpretation,
                 triage |-> wd.triage_assessment,
                 report_content |-> wd.report_data,
                 quality_assessment |-> wd.quality_assessment,
                 generated_by |-> "AutoPFTReport AI",
                 generated_at |-> isoformat(DateTime(clock)),
                 processing_metadata |->
                     [workflow_version |-> "1.0",
                      agents_used |-> [k \in StepIds |-> StageOf(NSteps + 1 - k)],
                      processing_time |-> st.processing_time]],
     workflow_status |-> to_dict(st)]

\* test_date and generated_at are datetime.now().isoformat() at the call.
_create_final_result(request_id, wd, st) ==
    [request_id |-> request_id, status |-> "completed",
     processing_time |-> st.processing_time,
     report |-> [report_id |-> request_id,
                 patient_demographics |-> wd.patient_demographics,
                 test_date |-> isoformat(DateTime(clock)),
                 extracted_data |-> wd.extracted_data,
                 interpretation |-> wd.interpretation,
                 triage |-> wd.triage_assessment,
                 report_content |-> wd.report_data,
                 quality_assessment |-> wd.quality_assessment,
                 generated_by |-> "AutoPFTReport AI",
                 generated_at |-> isoformat(DateTime(clock)),
                 processing_metadata |->
                     [workflow_version |-> "1.0",
                      agents_used |-> [k \in StepIds |-> StageOf(k)],
                      processing_time |-> st.processing_time]],
     workflow_status |-> to_dict(st)]

\* asyncio.wait_for(call, timeout): the call's result when it ends within the
\* timeout, asyncio.TimeoutError when it is still running at the timeout.
WaitFor(behaviour, timeout) ==
    IF behaviour.raises THEN "raised"
    ELSE IF behaviour.duration > timeout THEN "timeout"
    ELSE "returned"

\* The record upload_pft_file stores before it launches the pipeline.
AdmissionRecord ==
    [status |-> QUEUED, progress |-> 0, current_step |-> "Queued for processing"]

\* What is on the channel and under the keys of one request.
progress_channel(r) == redis_channels[ProgressTopic(r)]

processing_record(r) == redis_store[ProcessingKey(r)]

report_record(r) == redis_store[ReportKey(r)]

-----------------------------------------------------------------------------
(* Initial states.  Every request was admitted by upload_pft_file.  An      *)
(* invocation that runs has created its WorkflowStatus and workflow_data    *)
(* and is about to enter the loop; one that does not run is "not_started". *)

\* What an agent call may do: raise, or take some seconds and return one of
\* the payloads.
Behaviours ==
    {[raises |-> FALSE, duration |-> d, payloads |-> Payloads] : d \in Durations}
        \cup {[raises |-> TRUE, duration |-> 1, payloads |-> Payloads]}

IdleScript == [k \in StepIds |-> [raises |-> TRUE, duration |-> 1, payloads |-> {}]]

\* No agent call has been given up on.
NoAbandonedCall == [stage |-> None, finished |-> FALSE, result |-> EmptyDict]

\* No HTTP request has been served.
NoExchange == [request |-> [endpoint |-> None], response |-> [code |-> 0]]

InitLocals ==
    /\ clock = 0
    /\ abandoned_call = [r \in Requests |-> NoAbandonedCall]
    /\ last_http = NoExchange
    /\ launched = [r \in Requests |-> 1]
    /\ feedback = <<>>
    /\ analysed = <<>>
    /\ step_idx = [r \in Requests |-> 1]
    /\ status = [r \in Requests |-> NewWorkflowStatus(r)]
    /\ workflow_data = [r \in Requests |-> InitialWorkflowData(r)]
    /\ calls = [r \in Requests |-> [k \in StepIds |-> 0]]
    /\ call_outcome = [r \in Requests |-> [k \in StepIds |-> "not_called"]]
    /\ envelope = [r \in Requests |-> NoEnvelope]
    /\ final_result = [r \in Requests |-> NoEnvelope]
    /\ redis_channels = [t \in RedisTopics |-> <<>>]
    /\ redis_store = [key \in RedisKeys |->
                        IF key \in {ProcessingKey(r) : r \in Requests}
                        THEN AdmissionRecord ELSE NoReport]

\* One invocation, for RequestId.
Init ==
    /\ InitLocals
    /\ pc = [r \in Requests |-> IF r = RequestId THEN "loop" ELSE "not_started"]
    /\ \E cb \in BOOLEAN :
          has_callback = [r \in Requests |-> IF r = RequestId THEN cb ELSE FALSE]
    /\ \E sc \in [StepIds -> Behaviours] :
          script = [r \in Requests |-> IF r = RequestId THEN sc ELSE IdleScript]

-----------------------------------------------------------------------------
(* The loop body up to the agent call (orchestrator.py 195-222) *)

CurrentStep(r) == workflow_steps[step_idx[r]]

\* self._execute_workflow_step(step, workflow_data) is entered: the agent
\* method of the current step is invoked under asyncio.wait_for.
InvokeAgent(r) ==
    /\ pc' = [pc EXCEPT ![r] = "call"]
    /\ calls' = [calls EXCEPT ![r][step_idx[r]] = @ + 1]
    /\ call_outcome' = [call_outcome EXCEPT ![r][step_idx[r]] = "pending"]

\* The inner "except Exception" handler up to its await of redis set.
CatchStepError(r, e) ==
    /\ status' = [status EXCEPT
                    ![r] = set_error(@, StepErrorMsg(CurrentStep(r).stage, e))]
    /\ pc' = [pc EXCEPT ![r] = "persist_step_error"]

\* The outer "except Exception" handler up to its await of redis set.
CatchWorkflowError(r, e) ==
    /\ status' = [status EXCEPT ![r] = set_error(@, UnexpectedMsg(e))]
    /\ pc' = [pc EXCEPT ![r] = "persist_workflow_error"]

\* redis_client.publish(f"pft:progress:{request_id}", json.dumps(status.to_dict()))
Publish(r) ==
    redis_channels' =
        [redis_channels EXCEPT ![ProgressTopic(r)] = Append(@, to_dict(status[r]))]

\* redis_client.set(f"pft:processing:{request_id}", json.dumps(status.to_dict()))
PersistStatus(r) ==
    redis_store' = [redis_store EXCEPT ![ProcessingKey(r)] = to_dict(status[r])]

BeginStep(r) ==
    /\ pc[r] = "loop"
    /\ step_idx[r] <= NSteps
    /\ status' = [status EXCEPT
                    ![r] = update_stage(@, CurrentStep(r).stage,
                                        CurrentStep(r).progress,
                                        CurrentStep(r).description)]
    /\ pc' = [pc EXCEPT ![r] = "publish"]
    /\ UNCHANGED <<step_idx, has_callback, script, workflow_data, calls,
                   call_outcome, envelope, redis_channels, redis_store,
                   clock,
                   final_result,
                   abandoned_call, api_vars>>

PublishReturns(r) ==
    /\ pc[r] = "publish"
    /\ Publish(r)
    /\ pc' = [pc EXCEPT ![r] = "persist"]
    /\ UNCHANGED <<step_idx, has_callback, script, status, workflow_data,
                   calls, call_outcome, envelope, redis_store, clock,
                   final_result,
                   abandoned_call, api_vars>>

PublishRaises(r) ==
    /\ pc[r] = "publish"
    /\ CatchStepError(r, RedisError)
    /\ UNCHANGED <<step_idx, has_callback, script, workflow_data, calls,
                   call_outcome, envelope, redis_channels, redis_store,
                   clock,
                   final_result,
                   abandoned_call, api_vars>>

\* Mutant: the agent is invoked as soon as the publish is done, the status
\* is not written to pft:processing first.
PersistSkipped(r) ==
    /\ pc[r] = "persist"
    /\ IF has_callback[r]
       THEN pc' = [pc EXCEPT ![r] = "callback"] /\ UNCHANGED <<calls, call_outcome>>
       ELSE InvokeAgent(r)
    /\ UNCHANGED <<step_idx, has_callback, script, status, workflow_data,
                   envelope, redis_channels, redis_store, clock,
                   final_result,
                   abandoned_call, api_vars>>

PersistReturns(r) ==
    /\ pc[r] = "persist"
    /\ PersistStatus(r)
    /\ IF has_callback[r]
       THEN pc' = [pc EXCEPT ![r] = "callback"] /\ UNCHANGED <<calls, call_outcome>>
       ELSE InvokeAgent(r)
    /\ UNCHANGED <<step_idx, has_callback, script, status, workflow_data,
                   envelope, redis_channels, clock,
                   final_result,
                   abandoned_call, api_vars>>

PersistRaises(r) ==
    /\ pc[r] = "persist"
    /\ CatchStepError(r, RedisError)
    /\ UNCHANGED <<step_idx, has_callback, script, workflow_data, calls,
                   call_outcome, envelope, redis_channels, redis_store,
                   clock,
                   final_result,
                   abandoned_call, api_vars>>

CallbackReturns(r) ==
    /\ pc[r] = "callback"
    /\ InvokeAgent(r)
    /\ UNCHANGED <<step_idx, has_callback, script, status, workflow_data,
                   envelope, redis_channels, redis_store, clock,
                   final_result,
                   abandoned_call, api_vars>>

CallbackRaises(r) ==
    /\ pc[r] = "callback"
    /\ CatchStepError(r, CallbackError)
    /\ UNCHANGED <<step_idx, has_callback, script, workflow_data, calls,
                   call_outcome, envelope, redis_channels, redis_store,
                   clock,
                   final_result,
                   abandoned_call, api_vars>>

-----------------------------------------------------------------------------
(* The end of the awaited agent call (orchestrator.py 219-252) *)

\* Mutant: stage_results is rebuilt from the latest result only.
AgentReturnsOverwrites(r) ==
    /\ pc[r] = "call"
    /\ WaitFor(script[r][step_idx[r]], CurrentStep(r).timeout) = "returned"
    /\ \E p \in script[r][step_idx[r]].payloads :
          LET result == AgentResult(CurrentStep(r).stage,
                                    workflow_data[r].request_id, p)
          IN  /\ status' = [status EXCEPT ![r].stage_results =
                                (CurrentStep(r).stage :> result)]
              /\ workflow_data' = [workflow_data EXCEPT ![r] =
                    _update_workflow_data(CurrentStep(r).stage, result, @)]
    /\ call_outcome' = [call_outcome EXCEPT ![r][step_idx[r]] = "returned"]
    /\ step_idx' = [step_idx EXCEPT ![r] = @ + 1]
    /\ pc' = [pc EXCEPT ![r] = "loop"]
    /\ UNCHANGED <<has_callback, script, calls, envelope, redis_channels,
                   redis_store, clock,
                   final_result,
                   abandoned_call, api_vars>>

\* The agent works on the arguments taken from the caller's workflow_data
\* and returns its result to the awaiting caller.
AgentReturns(r) ==
    /\ pc[r] = "call"
    /\ WaitFor(script[r][step_idx[r]], CurrentStep(r).timeout) = "returned"
    /\ \E p \in script[r][step_idx[r]].payloads :
          LET result == AgentResult(CurrentStep(r).stage,
                                    workflow_data[r].request_id, p)
          IN  /\ status' = [status EXCEPT ![r].stage_results =
                                (CurrentStep(r).stage :> result) @@ @]
              /\ workflow_data' = [workflow_data EXCEPT ![r] =
                    _update_workflow_data(CurrentStep(r).stage, result, @)]
    /\ call_outcome' = [call_outcome EXCEPT ![r][step_idx[r]] = "returned"]
    /\ step_idx' = [step_idx EXCEPT ![r] = @ + 1]
    /\ pc' = [pc EXCEPT ![r] = "loop"]
    /\ UNCHANGED <<has_callback, script, calls, envelope, redis_channels,
                   redis_store, clock,
                   final_result,
                   abandoned_call, api_vars>>

\* Mutant: the timeout handler logs and goes on with the next step.
AgentTimesOutContinues(r) ==
    /\ pc[r] = "call"
    /\ WaitFor(script[r][step_idx[r]], CurrentStep(r).timeout) = "timeout"
    /\ call_outcome' = [call_outcome EXCEPT ![r][step_idx[r]] = "timeout"]
    /\ step_idx' = [step_idx EXCEPT ![r] = @ + 1]
    /\ pc' = [pc EXCEPT ![r] = "loop"]
    /\ UNCHANGED <<has_callback, script, status, workflow_data, calls,
                   envelope, redis_channels, redis_store, clock,
                   final_result,
                   abandoned_call, api_vars>>

AgentTimesOut(r) ==
    /\ pc[r] = "call"
    /\ WaitFor(script[r][step_idx[r]], CurrentStep(r).timeout) = "timeout"
    /\ status' = [status EXCEPT
                    ![r] = set_error(@, TimeoutMsg(CurrentStep(r).stage))]
    /\ call_outcome' = [call_outcome EXCEPT ![r][step_idx[r]] = "timeout"]
    /\ abandoned_call' = [abandoned_call EXCEPT ![r] =
          [stage |-> CurrentStep(r).stage, finished |-> FALSE, result |-> EmptyDict]]
    /\ pc' = [pc EXCEPT ![r] = "persist_timeout_error"]
    /\ UNCHANGED <<step_idx, has_callback, script, workflow_data, calls,
                   envelope, redis_channels, redis_store, clock,
                   final_result, api_vars>>

\* Mutant: the handler of a step error undoes the merges made so far.
AgentRaisesRollsBack(r) ==
    /\ pc[r] = "call"
    /\ WaitFor(script[r][step_idx[r]], CurrentStep(r).timeout) = "raised"
    /\ \E e \in AgentErrors : CatchStepError(r, e)
    /\ call_outcome' = [call_outcome EXCEPT ![r][step_idx[r]] = "raised"]
    /\ workflow_data' = [workflow_data EXCEPT ![r] = InitialWorkflowData(r)]
    /\ UNCHANGED <<step_idx, has_callback, script, calls,
                   envelope, redis_channels, redis_store, clock,
                   final_result,
                   abandoned_call, api_vars>>

\* Mutant: the handler of a step error calls the agent once more.
AgentRaisesRetries(r) ==
    /\ pc[r] = "call"
    /\ WaitFor(script[r][step_idx[r]], CurrentStep(r).timeout) = "raised"
    /\ IF calls[r][step_idx[r]] < 2
       THEN /\ calls' = [calls EXCEPT ![r][step_idx[r]] = @ + 1]
            /\ UNCHANGED <<pc, status, call_outcome>>
       ELSE /\ \E e \in AgentErrors : CatchStepError(r, e)
            /\ call_outcome' = [call_outcome EXCEPT ![r][step_idx[r]] = "raised"]
            /\ UNCHANGED calls
    /\ UNCHANGED <<step_idx, has_callback, script, workflow_data, envelope,
                   redis_channels, redis_store, clock,
                   final_result,
                   abandoned_call, api_vars>>

AgentRaises(r) ==
    /\ pc[r] = "call"
    /\ WaitFor(script[r][step_idx[r]], CurrentStep(r).timeout) = "raised"
    /\ \E e \in AgentErrors : CatchStepError(r, e)
    /\ call_outcome' = [call_outcome EXCEPT ![r][step_idx[r]] = "raised"]
    /\ UNCHANGED <<step_idx, has_callback, script, workflow_data, calls,
                   envelope, redis_channels, redis_store, clock,
                   final_result,
                   abandoned_call, api_vars>>

\* "Persist error status" and return the error response (237-241, 248-252,
\* 285-289).
ReturnErrorResponse(r) ==
    /\ PersistStatus(r)
    /\ envelope' = [envelope EXCEPT ![r] =
          _create_error_response(r, status[r].error_message, status[r])]
    /\ pc' = [pc EXCEPT ![r] = "done"]

TimeoutPersistReturns(r) ==
    /\ pc[r] = "persist_timeout_error"
    /\ ReturnErrorResponse(r)
    /\ UNCHANGED <<step_idx, has_callback, script, status, workflow_data,
                   calls, call_outcome, redis_channels, clock,
                   final_result,
                   abandoned_call, api_vars>>

TimeoutPersistRaises(r) ==
    /\ pc[r] = "persist_timeout_error"
    /\ CatchWorkflowError(r, RedisError)
    /\ UNCHANGED <<step_idx, has_callback, script, workflow_data, calls,
                   call_outcome, envelope, redis_channels, redis_store,
                   clock,
                   final_result,
                   abandoned_call, api_vars>>

StepErrorPersistReturns(r) ==
    /\ pc[r] = "persist_step_error"
    /\ ReturnErrorResponse(r)
    /\ UNCHANGED <<step_idx, has_callback, script, status, workflow_data,
                   calls, call_outcome, redis_channels, clock,
                   final_result,
                   abandoned_call, api_vars>>

StepErrorPersistRaises(r) ==
    /\ pc[r] = "persist_step_error"
    /\ CatchWorkflowError(r, RedisError)
    /\ UNCHANGED <<step_idx, has_callback, script, workflow_data, calls,
                   call_outcome, envelope, redis_channels, redis_store,
                   clock,
                   final_result,
                   abandoned_call, api_vars>>

-----------------------------------------------------------------------------
(* After the loop (orchestrator.py 254-289) *)

\* Mutant: the report is stored as soon as the loop is left, before the
\* COMPLETED status is published and persisted.
MarkCompletedStoresReport(r) ==
    /\ pc[r] = "loop"
    /\ step_idx[r] > NSteps
    /\ status' = [status EXCEPT
                    ![r] = update_stage(@, COMPLETED, 100,
                                        "Processing completed successfully")]
    /\ redis_store' = [redis_store EXCEPT ![ReportKey(r)] =
          _create_final_result(r, workflow_data[r], status[r]).report]
    /\ pc' = [pc EXCEPT ![r] = "final_publish"]
    /\ UNCHANGED <<step_idx, has_callback, script, workflow_data, calls,
                   call_outcome, envelope, redis_channels, clock,
                   final_result,
                   abandoned_call, api_vars>>

MarkCompleted(r) ==
    /\ pc[r] = "loop"
    /\ step_idx[r] > NSteps
    /\ status' = [status EXCEPT
                    ![r] = update_stage(@, COMPLETED, 100,
                                        "Processing completed successfully")]
    /\ pc' = [pc EXCEPT ![r] = "final_publish"]
    /\ UNCHANGED <<step_idx, has_callback, script, workflow_data, calls,
                   call_outcome, envelope, redis_channels, redis_store,
                   clock,
                   final_result,
                   abandoned_call, api_vars>>

FinalPublishReturns(r) ==
    /\ pc[r] = "final_publish"
    /\ Publish(r)
    /\ pc' = [pc EXCEPT ![r] = "final_persist"]
    /\ UNCHANGED <<step_idx, has_callback, script, status, workflow_data,
                   calls, call_outcome, envelope, redis_store, clock,
                   final_result,
                   abandoned_call, api_vars>>

FinalPublishRaises(r) ==
    /\ pc[r] = "final_publish"
    /\ CatchWorkflowError(r, RedisError)
    /\ UNCHANGED <<step_idx, has_callback, script, workflow_data, calls,
                   call_outcome, envelope, redis_channels, redis_store,
                   clock,
                   final_result,
                   abandoned_call, api_vars>>

\* final_result = self._create_final_result(...) and the call of redis set
\* with its report (orchestrator.py 270-276).
BuildFinalResult(r) ==
    /\ final_result' = [final_result EXCEPT ![r] =
          _create_final_result(r, workflow_data[r], status[r])]
    /\ pc' = [pc EXCEPT ![r] = "persist_report"]

FinalPersistReturns(r) ==
    /\ pc[r] = "final_persist"
    /\ PersistStatus(r)
    /\ IF has_callback[r]
       THEN pc' = [pc EXCEPT ![r] = "final_callback"] /\ UNCHANGED final_result
       ELSE BuildFinalResult(r)
    /\ UNCHANGED <<step_idx, has_callback, script, status, workflow_data,
                   calls, call_outcome, envelope, redis_channels, clock,
                   abandoned_call, api_vars>>

FinalPersistRaises(r) ==
    /\ pc[r] = "final_persist"
    /\ CatchWorkflowError(r, RedisError)
    /\ UNCHANGED <<step_idx, has_callback, script, workflow_data, calls,
                   call_outcome, envelope, redis_channels, redis_store,
                   clock,
                   final_result,
                   abandoned_call, api_vars>>

FinalCallbackReturns(r) ==
    /\ pc[r] = "final_callback"
    /\ BuildFinalResult(r)
    /\ UNCHANGED <<step_idx, has_callback, script, status, workflow_data,
                   calls, call_outcome, envelope, redis_channels,
                   redis_store, clock,
                   abandoned_call, api_vars>>

FinalCallbackRaises(r) ==
    /\ pc[r] = "final_callback"
    /\ CatchWorkflowError(r, CallbackError)
    /\ UNCHANGED <<step_idx, has_callback, script, workflow_data, calls,
                   call_outcome, envelope, redis_channels, redis_store,
                   clock,
                   final_result,
                   abandoned_call, api_vars>>

ReportPersistReturns(r) ==
    /\ pc[r] = "persist_report"
    /\ redis_store' = [redis_store EXCEPT ![ReportKey(r)] = final_result[r].report]
    /\ envelope' = [envelope EXCEPT ![r] = final_result[r]]
    /\ pc' = [pc EXCEPT ![r] = "done"]
    /\ UNCHANGED <<step_idx, has_callback, script, status, workflow_data,
                   calls, call_outcome, redis_channels, clock,
                   final_result,
                   abandoned_call, api_vars>>

ReportPersistRaises(r) ==
    /\ pc[r] = "persist_report"
    /\ CatchWorkflowError(r, RedisError)
    /\ UNCHANGED <<step_idx, has_callback, script, workflow_data, calls,
                   call_outcome, envelope, redis_channels, redis_store,
                   clock,
                   final_result,
                   abandoned_call, api_vars>>

WorkflowErrorPersistReturns(r) ==
    /\ pc[r] = "persist_workflow_error"
    /\ ReturnErrorResponse(r)
    /\ UNCHANGED <<step_idx, has_callback, script, status, workflow_data,
                   calls, call_outcome, redis_channels, clock,
                   final_result,
                   abandoned_call, api_vars>>

\* The redis set of the outer handler raises: nothing catches it, the
\* exception leaves process_pft_request.
WorkflowErrorPersistRaises(r) ==
    /\ pc[r] = "persist_workflow_error"
    /\ pc' = [pc EXCEPT ![r] = "raised"]
    /\ UNCHANGED <<step_idx, has_callback, script, status, workflow_data,
                   calls, call_outcome, envelope, redis_channels,
                   redis_store, clock,
                   final_result,
                   abandoned_call, api_vars>>

\* Mutant: the result of the abandoned call is delivered to the invocation
\* and stored like the result of an awaited call.
AbandonedCallFinishesRecorded(r) ==
    /\ abandoned_call[r].stage # None
    /\ ~abandoned_call[r].finished
    /\ \E p \in script[r][step_idx[r]].payloads :
          LET result == AgentResult(abandoned_call[r].stage, r, p)
          IN  /\ abandoned_call' = [abandoned_call EXCEPT
                    ![r] = [@ EXCEPT !.finished = TRUE, !.result = result]]
              /\ status' = [status EXCEPT ![r].stage_results =
                                (abandoned_call[r].stage :> result) @@ @]
              /\ workflow_data' = [workflow_data EXCEPT ![r] =
                    _update_workflow_data(abandoned_call[r].stage, result, @)]
    /\ UNCHANGED <<pc, step_idx, has_callback, script, calls, call_outcome,
                   final_result, envelope, redis_channels, redis_store,
                   clock, api_vars>>

\* asyncio.wait_for has raised TimeoutError for the call of the current step
\* (orchestrator.py 219-222, 232); the work the agent had started comes to
\* its end afterwards and produces a result.  Nothing awaits it: "result" at
\* line 219 was never assigned and the handler has left the loop.
AbandonedCallFinishes(r) ==
    /\ abandoned_call[r].stage # None
    /\ ~abandoned_call[r].finished
    /\ \E p \in script[r][step_idx[r]].payloads :
          abandoned_call' = [abandoned_call EXCEPT
              ![r] = [@ EXCEPT !.finished = TRUE,
                               !.result = AgentResult(abandoned_call[r].stage, r, p)]]
    /\ UNCHANGED <<pc, step_idx, has_callback, script, status, workflow_data,
                   calls, call_outcome, final_result, envelope,
                   redis_channels, redis_store, clock, api_vars>>

\* Time passes.
Tick ==
    /\ clock < MaxClock
    /\ clock' = clock + 1
    /\ UNCHANGED <<pc, step_idx, has_callback, script, status, workflow_data,
                   calls, call_outcome, envelope, redis_channels,
                   redis_store,
                   final_result,
                   abandoned_call, api_vars>>

-----------------------------------------------------------------------------
(* Specifications *)

Step(r) ==
    \/ BeginStep(r)
    \/ PublishReturns(r)
    \/ PublishRaises(r)
    \/ PersistReturns(r)
    \/ PersistRaises(r)
    \/ CallbackReturns(r)
    \/ CallbackRaises(r)
    \/ AgentReturns(r)
    \/ AgentTimesOut(r)
    \/ AgentRaises(r)
    \/ TimeoutPersistReturns(r)
    \/ TimeoutPersistRaises(r)
    \/ StepErrorPersistReturns(r)
    \/ StepErrorPersistRaises(r)
    \/ MarkCompleted(r)
    \/ FinalPublishReturns(r)
    \/ FinalPublishRaises(r)
    \/ FinalPersistReturns(r)
    \/ FinalPersistRaises(r)
    \/ FinalCallbackReturns(r)
    \/ FinalCallbackRaises(r)
    \/ ReportPersistReturns(r)
    \/ ReportPersistRaises(r)
    \/ WorkflowErrorPersistReturns(r)
    \/ WorkflowErrorPersistRaises(r)

Next == \E r \in Requests : Step(r)

\* One invocation; the clock stands still.
Spec == Init /\ [][Next]_vars

Finished(r) == pc[r] \in {"done", "raised"}

\* Specification in which every Redis command succeeds; agents and the
\* progress callback may still fail.
StepRedisUp(r) ==
    \/ BeginStep(r)
    \/ PublishReturns(r)
    \/ PersistReturns(r)
    \/ CallbackReturns(r)
    \/ CallbackRaises(r)
    \/ AgentReturns(r)
    \/ AgentTimesOut(r)
    \/ AgentRaises(r)
    \/ TimeoutPersistReturns(r)
    \/ StepErrorPersistReturns(r)
    \/ MarkCompleted(r)
    \/ FinalPublishReturns(r)
    \/ FinalPersistReturns(r)
    \/ FinalCallbackReturns(r)
    \/ FinalCallbackRaises(r)
    \/ ReportPersistReturns(r)
    \/ WorkflowErrorPersistReturns(r)

NextRedisUp == \E r \in Requests : StepRedisUp(r)

SpecRedisUp == Init /\ [][NextRedisUp]_vars

\* One invocation, with time passing between its steps and after its end.
NextClock == Next \/ Tick

SpecClock == Init /\ [][NextClock]_vars

\* Specification in which an agent call that timed out may still finish.
NextLate == Next \/ \E r \in Requests : AbandonedCallFinishes(r)

SpecLate == Init /\ [][NextLate]_vars

\* Two invocations on the one orchestrator instance, interleaved at their
\* await points.  No progress callback; the agents return one fixed payload;
\* each invocation follows one of three scripts.
AllReturn == [k \in StepIds |-> [raises |-> FALSE, duration |-> 1, payloads |-> {1}]]

ConcurrentScripts ==
    { AllReturn,
      [AllReturn EXCEPT ![2].duration = 91],
      [AllReturn EXCEPT ![3].raises = TRUE] }

InitConcurrent ==
    /\ InitLocals
    /\ pc = [r \in Requests |-> "loop"]
    /\ has_callback = [r \in Requests |-> FALSE]
    /\ script \in [Requests -> ConcurrentScripts]

StepConcurrent(r) ==
    \/ BeginStep(r)
    \/ PublishReturns(r)
    \/ PublishRaises(r)
    \/ PersistReturns(r)
    \/ PersistRaises(r)
    \/ AgentReturns(r)
    \/ AgentTimesOut(r)
    \/ AgentRaises(r)
    \/ TimeoutPersistReturns(r)
    \/ TimeoutPersistRaises(r)
    \/ StepErrorPersistReturns(r)
    \/ StepErrorPersistRaises(r)
    \/ MarkCompleted(r)
    \/ FinalPublishReturns(r)
    \/ FinalPublishRaises(r)
    \/ FinalPersistReturns(r)
    \/ FinalPersistRaises(r)
    \/ ReportPersistReturns(r)
    \/ ReportPersistRaises(r)
    \/ WorkflowErrorPersistReturns(r)
    \/ WorkflowErrorPersistRaises(r)

NextConcurrent == \E r \in Requests : StepConcurrent(r)

SpecConcurrent == InitConcurrent /\ [][NextConcurrent]_vars

-----------------------------------------------------------------------------
(* The HTTP handlers of main.py *)

\* settings.SUPPORTED_FILE_TYPES and settings.MAX_FILE_SIZE (config.py).
SUPPORTED_FILE_TYPES == {"txt", "pdf", "csv", "xlsx", "xml", "json"}

MAX_FILE_SIZE == 10 * 1024 * 1024

\* Uploads the model tries: the extension of the file name and the number
\* of bytes read from the file.
Extensions == {"txt", "json", "exe"}

FileSizes == {1, MAX_FILE_SIZE, MAX_FILE_SIZE + 1}

\* redis_client.get returned None: no value under the key.
NoRecord == [absent |-> TRUE]

\* json.loads(record).get("status")
RecordStatus(rec) == IF "status" \in DOMAIN rec THEN rec.status ELSE None

HTTPException(status_code, detail) == [code |-> status_code, detail |-> detail]

UploadRequest(ext, size) ==
    [endpoint |-> "POST /pft/upload", ext |-> ext, size |-> size]

GetRequest(endpoint, request_id) == [endpoint |-> endpoint, request_id |-> request_id]

\* What an invocation owns besides its position and the Redis keys.
workflow_vars == <<step_idx, has_callback, script, status, workflow_data, calls,
                   call_outcome, final_result, envelope, redis_channels, clock,
                   abandoned_call>>

\* str(uuid.uuid4()): an id no earlier upload was given.
uuid4 == {r \in Requests : pc[r] = "not_admitted"}

\* raise HTTPException(status_code=400, ...) before anything was stored.
RejectUpload(ext, size, detail) ==
    /\ last_http' = [request |-> UploadRequest(ext, size),
                     response |-> HTTPException(400, detail)]
    /\ UNCHANGED <<pc, redis_store, launched, feedback, analysed, workflow_vars>>

\* The admission record is stored and the pipeline is added to the
\* background tasks of the response (main.py 231-258).
AdmitUpload(ext, size, request_id) ==
    /\ redis_store' = [redis_store EXCEPT ![ProcessingKey(request_id)] = AdmissionRecord]
    /\ launched' = [launched EXCEPT ![request_id] = @ + 1]
    /\ pc' = [pc EXCEPT ![request_id] = "not_started"]
    /\ last_http' = [request |-> UploadRequest(ext, size),
                     response |-> [code |-> 200, request_id |-> request_id,
                                   status |-> "queued"]]
    /\ UNCHANGED <<feedback, analysed, workflow_vars>>

\* redis_client.set of the admission record raises: the handler ends with
\* the exception, nothing was stored and no task was added.
AdmissionPersistRaises(ext, size, request_id) ==
    /\ pc' = [pc EXCEPT ![request_id] = "upload_failed"]
    /\ last_http' = [request |-> UploadRequest(ext, size),
                     response |-> HTTPException(500, RedisError)]
    /\ UNCHANGED <<redis_store, launched, feedback, analysed, workflow_vars>>

\* Mutant: the size of the file is not checked.
upload_pft_file_ignores_size(ext, size) ==
    IF ext \notin SUPPORTED_FILE_TYPES
    THEN RejectUpload(ext, size, "Unsupported file type")
    ELSE \E request_id \in uuid4 :
            \/ AdmitUpload(ext, size, request_id)
            \/ AdmissionPersistRaises(ext, size, request_id)

\* Mutant: the request id is one that was given out before.
upload_pft_file_reuses_id(ext, size) ==
    IF ext \notin SUPPORTED_FILE_TYPES
    THEN RejectUpload(ext, size, "Unsupported file type")
    ELSE IF size > MAX_FILE_SIZE
    THEN RejectUpload(ext, size, "File size exceeds maximum")
    ELSE \E request_id \in Requests :
            \/ AdmitUpload(ext, size, request_id)
            \/ AdmissionPersistRaises(ext, size, request_id)

\* POST /pft/upload
upload_pft_file(ext, size) ==
    IF ext \notin SUPPORTED_FILE_TYPES
    THEN RejectUpload(ext, size, "Unsupported file type")
    ELSE IF size > MAX_FILE_SIZE
    THEN RejectUpload(ext, size, "File size exceeds maximum")
    ELSE \E request_id \in uuid4 :
            \/ AdmitUpload(ext, size, request_id)
            \/ AdmissionPersistRaises(ext, size, request_id)

\* The background task begins: process_pft_request creates its
\* WorkflowStatus and workflow_data (orchestrator.py 175-192).
StartInvocation(r) ==
    /\ pc[r] = "not_started"
    /\ launched[r] > 0
    /\ status' = [status EXCEPT ![r] = NewWorkflowStatus(r)]
    /\ workflow_data' = [workflow_data EXCEPT ![r] = InitialWorkflowData(r)]
    /\ pc' = [pc EXCEPT ![r] = "loop"]
    /\ UNCHANGED <<step_idx, has_callback, script, calls, call_outcome,
                   final_result, envelope, redis_channels, redis_store, clock,
                   abandoned_call, api_vars>>

\* GET /pft/report/{request_id}: the response.
get_pft_report(request_id) ==
    IF report_record(request_id) # NoReport
    THEN [code |-> 200, body |-> report_record(request_id)]
    ELSE IF processing_record(request_id) # NoRecord
    THEN IF RecordStatus(processing_record(request_id)) = "processing"
         THEN HTTPException(202, "Report still being processed")
         ELSE IF RecordStatus(processing_record(request_id)) = "failed"
         THEN HTTPException(500, "Report processing failed")
         ELSE HTTPException(404, "Report not found")
    ELSE HTTPException(404, "Report not found")

\* GET /pft/status/{request_id}: the response.
get_processing_status(request_id) ==
    LET request_data == processing_record(request_id)
    IN  IF request_data = NoRecord
        THEN HTTPException(404, "Request not found")
        ELSE [code |-> 200,
              request_id |-> request_id,
              status |-> IF "status" \in DOMAIN request_data
                         THEN request_data.status ELSE "",
              progress |-> request_data.progress,
              current_step |-> request_data.current_step]

GetReport(r) ==
    /\ last_http' = [request |-> GetRequest("GET /pft/report", r),
                     response |-> get_pft_report(r)]
    /\ UNCHANGED <<pc, redis_store, launched, feedback, analysed, workflow_vars>>

GetStatus(r) ==
    /\ last_http' = [request |-> GetRequest("GET /pft/status", r),
                     response |-> get_processing_status(r)]
    /\ UNCHANGED <<pc, redis_store, launched, feedback, analysed, workflow_vars>>

\* The service from its start: nothing is stored, no id was given out.
InitApi ==
    /\ clock = 0
    /\ pc = [r \in Requests |-> "not_admitted"]
    /\ step_idx = [r \in Requests |-> 1]
    /\ has_callback = [r \in Requests |-> FALSE]
    /\ script \in [Requests -> ConcurrentScripts]
    /\ status = [r \in Requests |-> NewWorkflowStatus(r)]
    /\ workflow_data = [r \in Requests |-> InitialWorkflowData(r)]
    /\ calls = [r \in Requests |-> [k \in StepIds |-> 0]]
    /\ call_outcome = [r \in Requests |-> [k \in StepIds |-> "not_called"]]
    /\ envelope = [r \in Requests |-> NoEnvelope]
    /\ final_result = [r \in Requests |-> NoEnvelope]
    /\ abandoned_call = [r \in Requests |-> NoAbandonedCall]
    /\ redis_channels = [t \in RedisTopics |-> <<>>]
    /\ redis_store = [key \in RedisKeys |->
                        IF key \in {ProcessingKey(r) : r \in Requests}
                        THEN NoRecord ELSE NoReport]
    /\ last_http = NoExchange
    /\ launched = [r \in Requests |-> 0]
    /\ feedback = <<>>
    /\ analysed = <<>>

\* The steps of an invocation whose Redis commands succeed and which was
\* given no progress callback, as upload_pft_file launches it.
StepApi(r) ==
    \/ StartInvocation(r)
    \/ BeginStep(r)
    \/ PublishReturns(r)
    \/ PersistReturns(r)
    \/ AgentReturns(r)
    \/ AgentTimesOut(r)
    \/ AgentRaises(r)
    \/ TimeoutPersistReturns(r)
    \/ StepErrorPersistReturns(r)
    \/ MarkCompleted(r)
    \/ FinalPublishReturns(r)
    \/ FinalPersistReturns(r)
    \/ ReportPersistReturns(r)
    \/ GetReport(r)
    \/ GetStatus(r)

NextApi ==
    \/ \E ext \in Extensions : \E size \in FileSizes : upload_pft_file(ext, size)
    \/ \E r \in Requests : StepApi(r)

SpecApi == InitApi /\ [][NextApi]_vars

-----------------------------------------------------------------------------

(* POST /pft/feedback *)

\* Feedback submissions the model makes.
MaxFeedback == 11

\* The DoctorFeedback bodies submitted.
FeedbackEntries == {"feedback-a", "feedback-b"}

\* "Trigger learning analysis every 10 entries": the number in the test of
\* total_fb and in lrange("pft:feedback", -10, -1).
BatchSize == 10

\* redis_client.lrange(key, -n, -1): the last n elements of the list.
lrange_last(list, n) ==
    IF Len(list) <= n THEN list ELSE SubSeq(list, Len(list) - n + 1, Len(list))

\* The entry is pushed, the length of the list is read, and from the tenth
\* entry on analyze_feedback_batch is called with the last ten entries; or
\* a Redis command raises and the handler answers 500.
submit_feedback(entry) ==
    /\ Len(feedback) < MaxFeedback
    /\ \/ LET pushed == Append(feedback, entry)
              total_fb == Len(pushed)
          IN  /\ feedback' = pushed
              /\ IF total_fb >= BatchSize
                 THEN analysed' = Append(analysed, lrange_last(pushed, BatchSize))
                 ELSE UNCHANGED analysed
              /\ last_http' = [request |-> [endpoint |-> "POST /pft/feedback",
                                            entry |-> entry],
                               response |-> [code |-> 200, status |-> "received"]]
       \/ /\ last_http' = [request |-> [endpoint |-> "POST /pft/feedback",
                                        entry |-> entry],
                           response |-> HTTPException(500, RedisError)]
          /\ UNCHANGED <<feedback, analysed>>
    /\ UNCHANGED <<pc, redis_store, launched, workflow_vars>>

NextFeedback == \E entry \in FeedbackEntries : submit_feedback(entry)

SpecFeedback == InitApi /\ [][NextFeedback]_vars

-----------------------------------------------------------------------------

(* Vocabulary of the properties *)

\* json.loads(record).get("stage")
RecordStage(rec) == IF "stage" \in DOMAIN rec THEN rec.stage ELSE None

PublishedStages(r) ==
    {progress_channel(r)[m].stage : m \in 1..Len(progress_channel(r))}

\* The context slot the agent of step k produces.
ContextSlot(wd, k) ==
    CASE k = 1 -> wd.extracted_data
      [] k = 2 -> wd.interpretation
      [] k = 3 -> wd.triage_assessment
      [] k = 4 -> wd.report_data
      [] k = 5 -> wd.quality_assessment

StagesBefore(k) == {StageOf(j) : j \in 1..(k - 1)}

Terminal == {COMPLETED, FAILED}

ScriptedOutcome(r, k) == WaitFor(script[r][k], workflow_steps[k].timeout)

-----------------------------------------------------------------------------
(* Properties *)

\* C1: whenever the agent of step N has been invoked, a snapshot with stage N
\* is on pft:progress, and while that call is in flight the record under
\* pft:processing is the snapshot with stage N: both were done before the call.
C1_SnapshotBeforeCall ==
    \A r \in Requests :
        /\ \A k \in StepIds : calls[r][k] > 0 => StageOf(k) \in PublishedStages(r)
        /\ pc[r] = "call" =>
              /\ progress_channel(r)[Len(progress_channel(r))] = to_dict(status[r])
              /\ progress_channel(r)[Len(progress_channel(r))].stage
                    = StageOf(step_idx[r])
              /\ processing_record(r) = to_dict(status[r])
              /\ RecordStage(processing_record(r)) = StageOf(step_idx[r])

C1_Witness ==
    pc[RequestId] = "call" /\ step_idx[RequestId] = 3 /\ has_callback[RequestId]

\* C2: steps run one after the other in the order of workflow_steps: when the
\* agent of step k has been invoked, every earlier step was invoked exactly
\* once, returned, and its result is in stage_results and in its context
\* slot; no step later than the current one was invoked; none is invoked twice.
C2_StrictlySequential ==
    \A r \in Requests : \A k \in StepIds :
        /\ calls[r][k] <= 1
        /\ calls[r][k] > 0 =>
              /\ k <= step_idx[r]
              /\ \A j \in 1..(k - 1) :
                    /\ calls[r][j] = 1
                    /\ call_outcome[r][j] = "returned"
                    /\ StageOf(j) \in DOMAIN status[r].stage_results
                    /\ status[r].stage_results[StageOf(j)].by = StageOf(j)
                    /\ ContextSlot(workflow_data[r], j) =
                          status[r].stage_results[StageOf(j)]

C2_Witness ==
    /\ pc[RequestId] = "call"
    /\ step_idx[RequestId] = NSteps
    /\ calls[RequestId][NSteps] = 1

\* C3: once the agent call of step k has timed out or raised, no later step's
\* agent is ever invoked.
C3_AbortOnFault ==
    \A r \in Requests : \A k \in StepIds :
        call_outcome[r][k] \in {"timeout", "raised"} =>
            \A j \in (k + 1)..NSteps : calls[r][j] = 0

C3_Witness ==
    /\ pc[RequestId] = "done"
    /\ call_outcome[RequestId][2] = "timeout"
    /\ envelope[RequestId].status = "failed"

\* C4: when step 1 returned and step 2 (timeout 90) timed out, the finished
\* invocation has status FAILED with the message "Timeout in step
\* interpretation", stage_results holds data_extraction only, and steps 3-5
\* were never invoked.
C4_TimeoutAtInterpretation ==
    \A r \in Requests :
        (/\ Finished(r)
         /\ call_outcome[r][1] = "returned"
         /\ call_outcome[r][2] = "timeout") =>
            /\ status[r].stage = FAILED
            /\ status[r].error_message = TimeoutMsg(INTERPRETATION)
            /\ DOMAIN status[r].stage_results = {DATA_EXTRACTION}
            /\ \A j \in 3..NSteps : calls[r][j] = 0

\* C5: when the agent of step k raised, stage_results holds the results of
\* steps 1..k-1 and nothing else, and a returned failure envelope carries
\* exactly these entries as partial_results.
C5_PartialResultsPreserved ==
    \A r \in Requests : \A k \in StepIds :
        call_outcome[r][k] = "raised" =>
            /\ DOMAIN status[r].stage_results = StagesBefore(k)
            /\ \A j \in 1..(k - 1) :
                  status[r].stage_results[StageOf(j)] =
                      ContextSlot(workflow_data[r], j)
            /\ pc[r] = "done" =>
                  /\ envelope[r].status = "failed"
                  /\ envelope[r].partial_results = status[r].stage_results
                  /\ DOMAIN envelope[r].partial_results = StagesBefore(k)

C5_Witness ==
    /\ pc[RequestId] = "done"
    /\ call_outcome[RequestId][3] = "raised"
    /\ DOMAIN envelope[RequestId].partial_results =
          {DATA_EXTRACTION, INTERPRETATION}

\* C6: once the invocation has finished, the record under pft:processing is
\* a terminal one (stage completed or failed).
C6_TerminalRecordPersisted ==
    \A r \in Requests :
        Finished(r) => RecordStage(processing_record(r)) \in Terminal

\* C7: once the stage of the WorkflowStatus is COMPLETED or FAILED, it never
\* changes again.
C7_TerminalStagesAreFinal ==
    [][\A r \in Requests :
          status[r].stage \in Terminal => status'[r].stage = status[r].stage]_vars

\* C8: when every agent returns within its timeout (and no progress callback
\* is in play), the invocation runs all five steps and ends COMPLETED, even
\* if a publish or persist raised along the way.
C8_GatewayFailureDoesNotAbort ==
    \A r \in Requests :
        (/\ Finished(r)
         /\ ~has_callback[r]
         /\ \A k \in StepIds : ScriptedOutcome(r, k) = "returned") =>
            /\ status[r].stage = COMPLETED
            /\ \A k \in StepIds : calls[r][k] = 1

\* C9: the status a finished invocation ended with, FAILED included, is the
\* last message on pft:progress and the record under pft:processing.
C9_TerminalStatusPublished ==
    \A r \in Requests :
        pc[r] = "done" =>
            /\ status[r].stage \in PublishedStages(r)
            /\ processing_record(r) = to_dict(status[r])

\* C10: progress is 100 exactly when the stage is COMPLETED.
C10_ProgressHundredIffCompleted ==
    \A r \in Requests : status[r].progress = 100 <=> status[r].stage = COMPLETED

\* The progress values of the status, in the order of QUEUED, the five steps
\* and COMPLETED.
ProgressOrder == <<0, 20, 40, 60, 80, 95, 100>>

\* C11: progress never decreases while the status is not FAILED: each change
\* of a status that is not FAILED takes progress to the next of the values
\* 0, 20, 40, 60, 80, 95, 100, and the successive snapshots published on
\* pft:progress carry non-decreasing progress.
C11_ProgressNonDecreasing ==
    /\ [](\A r \in Requests :
            \A m, n \in 1..Len(progress_channel(r)) :
                m <= n => progress_channel(r)[m].progress
                              <= progress_channel(r)[n].progress)
    /\ [][\A r \in Requests :
            status'[r].stage # FAILED =>
                /\ status'[r].progress >= status[r].progress
                /\ status'[r].progress # status[r].progress =>
                      \E i \in 1..(Len(ProgressOrder) - 1) :
                          /\ ProgressOrder[i] = status[r].progress
                          /\ ProgressOrder[i + 1] = status'[r].progress]_vars

C11_Witness ==
    /\ status[RequestId].progress = 100
    /\ status[RequestId].stage = COMPLETED
    /\ Len(progress_channel(RequestId)) = NSteps + 1

\* C12: completed_at of a WorkflowStatus is set exactly when its stage is
\* COMPLETED or FAILED.
C12_CompletedAtIffTerminal ==
    \A r \in Requests :
        status[r].completed_at.is_set <=> status[r].stage \in Terminal

C12_Witness ==
    /\ pc[RequestId] = "persist_timeout_error"
    /\ status[RequestId].stage = FAILED
    /\ status[RequestId].completed_at.is_set

\* C13: stage_results only grows (an entry, once present, stays and keeps its
\* value), and it holds an entry for a stage only if the agent of that step
\* was invoked and returned a result.
C13_StageResultsOnlyGrow ==
    /\ [](\A r \in Requests :
            /\ DOMAIN status[r].stage_results \subseteq {StageOf(k) : k \in StepIds}
            /\ \A k \in StepIds :
                  StageOf(k) \in DOMAIN status[r].stage_results =>
                      /\ calls[r][k] = 1
                      /\ call_outcome[r][k] = "returned"
                      /\ status[r].stage_results[StageOf(k)].by = StageOf(k))
    /\ [][\A r \in Requests :
            \A s \in DOMAIN status[r].stage_results :
                /\ s \in DOMAIN status'[r].stage_results
                /\ status'[r].stage_results[s] = status[r].stage_results[s]]_vars

C13_Witness ==
    /\ Cardinality(DOMAIN status[RequestId].stage_results) = NSteps
    /\ pc[RequestId] = "loop"

C15_AggregationIdempotent ==
    \A r \in Requests :
        pc[r] = "done" =>
            /\ envelope[r].status = "completed" =>
                  _create_final_result(r, workflow_data[r], status[r]) = envelope[r]
            /\ envelope[r].status = "failed" =>
                  _create_error_response(r, status[r].error_message, status[r])
                      = envelope[r]

\* C16: the orchestrator never retries: within one invocation every agent
\* operation is invoked at most once, and once a fault has been recorded
\* (an agent outcome of raise or timeout, or the status FAILED) no agent
\* operation is invoked again.
C16_NeverRetries ==
    /\ [](\A r \in Requests : \A k \in StepIds : calls[r][k] <= 1)
    /\ [][\A r \in Requests :
            (\/ status[r].stage = FAILED
             \/ \E k \in StepIds : call_outcome[r][k] \in {"raised", "timeout"})
                => calls'[r] = calls[r]]_vars

C16_Witness ==
    /\ pc[RequestId] = "done"
    /\ status[RequestId].stage = FAILED
    /\ call_outcome[RequestId][1] = "returned"
    /\ call_outcome[RequestId][2] = "raised"
    /\ calls[RequestId] = [k \in StepIds |-> IF k <= 2 THEN 1 ELSE 0]

\* C17: an invocation that has ended has returned an envelope to its caller:
\* no exception left process_pft_request, the envelope's status is
\* "completed" or "failed", and its workflow_status is the snapshot of the
\* terminal WorkflowStatus.
C17_AlwaysReturnsEnvelope ==
    \A r \in Requests :
        Finished(r) =>
            /\ pc[r] # "raised"
            /\ envelope[r].status \in {"completed", "failed"}
            /\ envelope[r].workflow_status = to_dict(status[r])
            /\ envelope[r].workflow_status.stage \in Terminal

\* C18: set_error applied to a WorkflowStatus whose stage is already
\* COMPLETED or FAILED leaves stage, error_message, completed_at and
\* processing_time as they are.
C18_SetErrorOnTerminalIsNoOp ==
    \A r \in Requests :
        status[r].stage \in Terminal =>
            \A e \in AgentErrors \cup {RedisError, CallbackError} :
                LET after == set_error(status[r], UnexpectedMsg(e))
                IN  /\ after.stage = status[r].stage
                    /\ after.error_message = status[r].error_message
                    /\ after.completed_at = status[r].completed_at
                    /\ after.processing_time = status[r].processing_time

\* C19: the report is stored under pft:report:{id}, a key other than the
\* status key pft:processing:{id}, and a report record exists only when all
\* five agent calls returned and the COMPLETED snapshot is the persisted
\* status; a run that failed at a stage has no report record.
C19_ReportOnlyOnCompletion ==
    \A r \in Requests :
        /\ ReportKey(r) # ProcessingKey(r)
        /\ report_record(r) # NoReport =>
              /\ \A k \in StepIds : call_outcome[r][k] = "returned"
              /\ RecordStage(processing_record(r)) = COMPLETED
              /\ report_record(r) = final_result[r].report
        /\ (\E k \in StepIds : call_outcome[r][k] \in {"raised", "timeout"}) =>
              report_record(r) = NoReport

C19_Witness ==
    /\ pc[RequestId] = "done"
    /\ report_record(RequestId) # NoReport
    /\ report_record(RequestId).report_id = RequestId
    /\ RecordStage(processing_record(RequestId)) = COMPLETED

\* C20: with two invocations for different request ids interleaved on the
\* one orchestrator instance, every stage result and context slot of an
\* invocation is a result computed for its own request, the records under
\* pft:processing:{id} and pft:report:{id} are those of the request that
\* owns the id, and a step of one invocation leaves the status,
\* stage_results, context, records and channel of the other as they were.
C20_OwnedBy(r) ==
    /\ status[r].request_id = r
    /\ workflow_data[r].request_id = r
    /\ \A s \in DOMAIN status[r].stage_results :
          status[r].stage_results[s] = AgentResult(s, r, 1)
    /\ \A k \in StepIds :
          ContextSlot(workflow_data[r], k) \in {EmptyDict, AgentResult(StageOf(k), r, 1)}
    /\ "request_id" \in DOMAIN processing_record(r) =>
          processing_record(r).request_id = r
    /\ report_record(r).report_id \in {None, r}
    /\ \A m \in 1..Len(progress_channel(r)) : progress_channel(r)[m].request_id = r

C20_ConcurrentIsolation ==
    /\ [](\A r \in Requests : C20_OwnedBy(r))
    /\ [][\A r \in Requests :
            pc'[r] = pc[r] =>
                /\ status'[r] = status[r]
                /\ workflow_data'[r] = workflow_data[r]
                /\ calls'[r] = calls[r]
                /\ envelope'[r] = envelope[r]
                /\ redis_store'[ProcessingKey(r)] = redis_store[ProcessingKey(r)]
                /\ redis_store'[ReportKey(r)] = redis_store[ReportKey(r)]
                /\ redis_channels'[ProgressTopic(r)] = redis_channels[ProgressTopic(r)]]_vars

\* One invocation has completed and stored its report while the other,
\* started with it, is still waiting for its second agent.
C20_Witness ==
    /\ pc[RequestId] = "call"
    /\ step_idx[RequestId] = 2
    /\ RecordStage(processing_record(RequestId)) = INTERPRETATION
    /\ pc[OtherRequestId] = "done"
    /\ status[OtherRequestId].stage = COMPLETED
    /\ report_record(OtherRequestId).report_id = OtherRequestId
    /\ report_record(RequestId) = NoReport

\* C21: an error message of the form "Error in step <stage>" or "Timeout in
\* step <stage>" is produced only by a failure of that stage's agent call:
\* the call was made and it raised or timed out, and the cause named is the
\* agent's.  A failing publish, persist or progress callback is never
\* attributed to a stage.
C21_StageFaultOnlyFromAgentCall ==
    \A r \in Requests :
        status[r].error_message.text \in {"Error in step", "Timeout in step"} =>
            \E k \in StepIds :
                /\ StageOf(k) = status[r].error_message.stage
                /\ call_outcome[r][k] \in {"raised", "timeout"}
                /\ status[r].error_message.cause \in AgentErrors \cup {None}

\* C22: when the bounded wait of a stage expires the workflow is failed, and
\* a result the abandoned agent call produces afterwards is never recorded:
\* it is not in stage_results, its context slot stays empty, and the step at
\* which it arrives leaves the status, the context, the envelope and the
\* Redis records as they are.
C22_LateResultNeverRecorded ==
    /\ [](\A r \in Requests :
            abandoned_call[r].stage # None =>
                /\ status[r].stage = FAILED
                /\ abandoned_call[r].stage \notin DOMAIN status[r].stage_results
                /\ \A k \in StepIds :
                      StageOf(k) = abandoned_call[r].stage =>
                          ContextSlot(workflow_data[r], k) = EmptyDict
                /\ pc[r] = "done" =>
                      /\ envelope[r].status = "failed"
                      /\ abandoned_call[r].stage \notin DOMAIN envelope[r].partial_results)
    /\ [][\A r \in Requests :
            (~abandoned_call[r].finished /\ abandoned_call'[r].finished) =>
                /\ status'[r] = status[r]
                /\ workflow_data'[r] = workflow_data[r]
                /\ envelope'[r] = envelope[r]
                /\ pc'[r] = pc[r]
                /\ redis_store' = redis_store
                /\ redis_channels' = redis_channels]_vars

\* The interpretation call was given up after 90 seconds, the failure
\* envelope has been returned, and the agent's result has arrived since.
C22_Witness ==
    /\ pc[RequestId] = "done"
    /\ abandoned_call[RequestId].stage = INTERPRETATION
    /\ abandoned_call[RequestId].finished
    /\ abandoned_call[RequestId].result = AgentResult(INTERPRETATION, RequestId, 1)
    /\ status[RequestId].error_message = TimeoutMsg(INTERPRETATION)
    /\ envelope[RequestId].status = "failed"
    /\ DOMAIN envelope[RequestId].partial_results = {DATA_EXTRACTION}

\* C23: _update_workflow_data for the stage of step k writes the slot of
\* step k and nothing else: every other slot and the input fields
\* request_id, file_content, file_type, patient_demographics,
\* historical_data and priority are as before, and no key is added; the
\* merge an invocation makes after an agent call changes its context the
\* same way.
InputFields(wd) ==
    <<wd.request_id, wd.file_content, wd.file_type, wd.patient_demographics,
      wd.historical_data, wd.priority>>

WritesOnlySlot(before, after, k, result) ==
    /\ ContextSlot(after, k) = result
    /\ \A j \in StepIds \ {k} : ContextSlot(after, j) = ContextSlot(before, j)
    /\ InputFields(after) = InputFields(before)
    /\ DOMAIN after = DOMAIN before

C23_MergeWritesOneSlot ==
    /\ [](\A r \in Requests : \A k \in StepIds : \A p \in Payloads :
            LET result == AgentResult(StageOf(k), r, p)
            IN  WritesOnlySlot(workflow_data[r],
                               _update_workflow_data(StageOf(k), result,
                                                     workflow_data[r]),
                               k, result))
    /\ [][\A r \in Requests :
            workflow_data'[r] # workflow_data[r] =>
                WritesOnlySlot(workflow_data[r], workflow_data'[r], step_idx[r],
                               status'[r].stage_results[StageOf(step_idx[r])])]_vars

C23_Witness ==
    /\ pc[RequestId] = "call"
    /\ step_idx[RequestId] = 3
    /\ workflow_data[RequestId].extracted_data =
          AgentResult(DATA_EXTRACTION, RequestId, 1)
    /\ workflow_data[RequestId].interpretation =
          AgentResult(INTERPRETATION, RequestId, 2)
    /\ workflow_data[RequestId].triage_assessment = EmptyDict
    /\ workflow_data[RequestId].file_content = "file"

\* C24: while the agent of step N is being called, the context slot of every
\* earlier step holds the result its agent returned and the slots of step N
\* and of the later steps are still empty; a slot that has been filled keeps
\* its value for the rest of the invocation, whatever fails later.
C24_ContextAtInvocation ==
    /\ [](\A r \in Requests :
            pc[r] = "call" =>
                \A j \in StepIds :
                    IF j < step_idx[r]
                    THEN /\ ContextSlot(workflow_data[r], j) # EmptyDict
                         /\ ContextSlot(workflow_data[r], j).by = StageOf(j)
                         /\ ContextSlot(workflow_data[r], j).for = r
                         /\ ContextSlot(workflow_data[r], j) =
                               status[r].stage_results[StageOf(j)]
                    ELSE ContextSlot(workflow_data[r], j) = EmptyDict)
    /\ [][\A r \in Requests : \A j \in StepIds :
            ContextSlot(workflow_data[r], j) # EmptyDict =>
                ContextSlot(workflow_data'[r], j) = ContextSlot(workflow_data[r], j)]_vars

\* The run failed at triage; the merges of the first two steps stand.
C24_Witness ==
    /\ pc[RequestId] = "done"
    /\ status[RequestId].stage = FAILED
    /\ call_outcome[RequestId][3] = "raised"
    /\ workflow_data[RequestId].extracted_data =
          AgentResult(DATA_EXTRACTION, RequestId, 2)
    /\ workflow_data[RequestId].interpretation =
          AgentResult(INTERPRETATION, RequestId, 1)
    /\ workflow_data[RequestId].report_data = EmptyDict

\* C25: for a request whose workflow ended FAILED and whose FAILED status
\* record the orchestrator has stored, GET /pft/report/{request_id} answers
\* 500 "Report processing failed".
C25_FailedReportIs500 ==
    \A r \in Requests :
        (/\ pc[r] = "done"
         /\ status[r].stage = FAILED
         /\ RecordStage(processing_record(r)) = FAILED) =>
            get_pft_report(r) = HTTPException(500, "Report processing failed")

\* C26: for a request that was admitted and whose workflow has not reached a
\* terminal state (queued, or at one of the five stages),
\* GET /pft/report/{request_id} answers 202 "Report still being processed".
C26_PendingReportIs202 ==
    \A r \in Requests :
        (/\ processing_record(r) # NoRecord
         /\ pc[r] \notin {"not_admitted", "upload_failed", "done", "raised"}
         /\ status[r].stage \notin Terminal) =>
            get_pft_report(r) = HTTPException(202, "Report still being processed")

\* C27: GET /pft/status/{request_id} of an admitted request answers with a
\* non-empty status naming the state of the stored record ("queued" for the
\* admission record, otherwise the stage of the orchestrator's record) and
\* with that record's progress and current_step.
C27_StatusIdentifiesState ==
    \A r \in Requests :
        processing_record(r) # NoRecord =>
            LET response == get_processing_status(r)
                record == processing_record(r)
            IN  /\ response.code = 200
                /\ response.status # ""
                /\ response.status = IF record = AdmissionRecord
                                     THEN "queued" ELSE RecordStage(record)
                /\ response.progress = record.progress
                /\ response.current_step = record.current_step

\* C28: an upload whose extension is not in SUPPORTED_FILE_TYPES or whose
\* size exceeds MAX_FILE_SIZE is answered with 400 and changes nothing: no
\* request id is given out, no pft:processing record is written, no
\* invocation is launched.
C28_RejectedUploadChangesNothing ==
    [][(/\ last_http' # last_http
        /\ last_http'.request.endpoint = "POST /pft/upload"
        /\ \/ last_http'.request.ext \notin SUPPORTED_FILE_TYPES
           \/ last_http'.request.size > MAX_FILE_SIZE) =>
            /\ last_http'.response.code = 400
            /\ DOMAIN last_http'.response = {"code", "detail"}
            /\ UNCHANGED <<pc, redis_store, launched, workflow_vars>>]_vars

\* An oversized file was refused after one upload had been admitted.
C28_Witness ==
    /\ last_http.request = UploadRequest("txt", MAX_FILE_SIZE + 1)
    /\ last_http.response = HTTPException(400, "File size exceeds maximum")
    /\ pc[RequestId] = "not_started"
    /\ pc[OtherRequestId] = "not_admitted"
    /\ processing_record(OtherRequestId) = NoRecord

\* C29: the "queued" record of an admitted upload is under
\* pft:processing:{request_id} before the invocation for that id starts: the
\* admission write only ever replaces an absent record, never one written
\* by the orchestrator, and one invocation is launched per admitted id.
C29_AdmissionBeforeInvocation ==
    /\ [](\A r \in Requests :
            /\ launched[r] <= 1
            /\ pc[r] \in {"not_admitted", "upload_failed"} =>
                  launched[r] = 0 /\ processing_record(r) = NoRecord
            /\ pc[r] \notin {"not_admitted", "upload_failed"} => launched[r] = 1
            /\ pc[r] = "not_started" =>
                  /\ processing_record(r) = AdmissionRecord
                  /\ processing_record(r).progress = 0)
    /\ [][\A r \in Requests :
            (/\ redis_store'[ProcessingKey(r)] = AdmissionRecord
             /\ redis_store[ProcessingKey(r)] # AdmissionRecord) =>
                /\ redis_store[ProcessingKey(r)] = NoRecord
                /\ pc[r] = "not_admitted"
                /\ pc'[r] = "not_started"
                /\ launched'[r] = launched[r] + 1]_vars

\* One request is being worked on, the other was admitted and waits.
C29_Witness ==
    /\ pc[RequestId] = "call"
    /\ launched[RequestId] = 1
    /\ RecordStage(processing_record(RequestId)) = DATA_EXTRACTION
    /\ pc[OtherRequestId] = "not_started"
    /\ launched[OtherRequestId] = 1
    /\ processing_record(OtherRequestId) = AdmissionRecord

\* C30: a feedback submission hands the last ten entries to
\* analyze_feedback_batch exactly when the length of pft:feedback after the
\* push is a positive multiple of ten, so the batches analysed so far are as
\* many as the full tens stored and no entry is in two of them.
C30_AnalysisEveryTenEntries ==
    /\ [](Len(analysed) = Len(feedback) \div BatchSize)
    /\ [][feedback' # feedback =>
            ((analysed' # analysed) <=>
                (Len(feedback') > 0 /\ Len(feedback') % BatchSize = 0))]_vars

====
